---------------------------- MODULE Spec2Model ----------------------------
(***************************************************************************)
(* Single-line / multi-line text layout engine: the scanner of parser.ts   *)
(* and the transformations of transformer.ts.                              *)
(*                                                                         *)
(* A text buffer is a sequence of one-character strings.  Offsets kept in  *)
(* the model are the 0-based offsets of the source; charAt converts them.  *)
(* Every function of the source is an operator computed the way the source *)
(* computes it; the state machine draws a buffer, calls one exported       *)
(* function on it and records what the function returned.                  *)
(***************************************************************************)
EXTENDS Integers, Sequences, FiniteSets

VARIABLES input,       \* the text buffer handed to the function
          options,     \* TransformOptions of the call
          op,          \* which exported function was called ("none" before the call)
          output,      \* the returned text buffer (transformations)
          layout,      \* the returned TextLayout (detectLayout)
          separators,  \* the returned SeparatorLocation[] (findSeparatorIndexes)
          blocks       \* the returned BalancedBlock[] (findBalancedBlocks)

vars == <<input, options, op, output, layout, separators, blocks>>

-----------------------------------------------------------------------------
(* Bounds of the model                                                     *)

MaxLen == 5

MaxScanLen == 4

MaxBlockLen == 5

MaxCompactLen == 5

MaxQuotedLen == 5

\* characters of the buffers of Spec: whitespace (the form feed among it), line
\* breaks, a separator, a letter
LayoutChars == {" ", "\n", "\r", "\t", "\f", ",", "a"}

\* characters of the buffers of SpecScan: brackets, separators, two quote kinds
ScanChars == {" ", ",", ";", "(", ")", "}", "\"", "'", "a"}

\* characters of the buffers of SpecBlocks: braces, a separator, two quote kinds,
\* the backslash
BlockChars == {"{", "}", ",", "\"", "'", "\\", "a"}

\* characters of the buffers of SpecCompact: braces, comma, space, line break,
\* tab, no-break space, a letter
CompactChars == {"{", "}", ",", " ", "\n", "\t", "\\u00a0", "a"}

\* characters of the buffers of SpecQuoted: braces, a quote, space, line break, a letter
QuotedChars == {"{", "}", "\"", " ", "\n", "a"}

TextsOver(alphabet, n) == UNION {[1..k -> alphabet] : k \in 0..n}

-----------------------------------------------------------------------------
(* types.ts                                                                *)

SingleLine == "single-line"

MultiLine == "multi-line"

TransformOptions == [isCommaOnNewLine : BOOLEAN]

-----------------------------------------------------------------------------
(* JavaScript string primitives used by the source                         *)

\* characters outside ASCII and the vertical tab, which a TLA+ string cannot
\* hold, are named by their escape
VT == "\\u000b"

NBSP == "\\u00a0"

BOM == "\\ufeff"

LINE_SEPARATOR == "\\u2028"

PARAGRAPH_SEPARATOR == "\\u2029"

\* the other characters of the Unicode category Space_Separator
UnicodeSpaces ==
    {"\\u1680", "\\u2000", "\\u2001", "\\u2002", "\\u2003", "\\u2004", "\\u2005",
     "\\u2006", "\\u2007", "\\u2008", "\\u2009", "\\u200a", "\\u202f", "\\u205f",
     "\\u3000"}

\* the characters String.prototype.trim strips and the regex class \s matches:
\* the WhiteSpace and LineTerminator productions of ECMAScript
WhiteSpace ==
    {" ", "\t", "\n", "\r", "\f", VT, NBSP, BOM, LINE_SEPARATOR, PARAGRAPH_SEPARATOR}
        \cup UnicodeSpaces

\* text[i] of the source: the character at 0-based offset i, undefined past the end
charAt(text, i) == IF i >= 0 /\ i < Len(text) THEN text[i + 1] ELSE "undefined"

RECURSIVE trimStart(_)
trimStart(text) ==
    IF text = <<>> THEN <<>>
    ELSE IF Head(text) \in WhiteSpace THEN trimStart(Tail(text))
    ELSE text

RECURSIVE trimEnd(_)
trimEnd(text) ==
    IF text = <<>> THEN <<>>
    ELSE IF text[Len(text)] \in WhiteSpace THEN trimEnd(SubSeq(text, 1, Len(text) - 1))
    ELSE text

\* String.prototype.trim
trim(text) == trimEnd(trimStart(text))

\* variant: the replace without the g flag, which drops the first match only
RECURSIVE replaceFirstOfClass(_, _)
replaceFirstOfClass(text, class) ==
    IF text = <<>> THEN <<>>
    ELSE IF Head(text) \in class THEN Tail(text)
    ELSE <<Head(text)>> \o replaceFirstOfClass(Tail(text), class)

\* text.replace(/[class]/g, ''): a left-to-right pass that drops every match
RECURSIVE replaceClassWithEmpty(_, _)
replaceClassWithEmpty(text, class) ==
    IF text = <<>> THEN <<>>
    ELSE IF Head(text) \in class
         THEN replaceClassWithEmpty(Tail(text), class)
         ELSE <<Head(text)>> \o replaceClassWithEmpty(Tail(text), class)

\* /[class]/.test(text)
RECURSIVE regexTest(_, _)
regexTest(class, text) ==
    IF text = <<>> THEN FALSE
    ELSE IF Head(text) \in class THEN TRUE
    ELSE regexTest(class, Tail(text))

\* text.substring(from, to): the characters at 0-based offsets from .. to - 1
substring(text, from, to) == SubSeq(text, from + 1, to)

\* text.startsWith(ch)
startsWith(text, ch) == Len(text) > 0 /\ text[1] = ch

\* text without its longest leading run of characters of class
RECURSIVE skipRun(_, _)
skipRun(text, class) ==
    IF text = <<>> THEN <<>>
    ELSE IF Head(text) \in class THEN skipRun(Tail(text), class)
    ELSE text

\* text.replace(/[class]+/g, ' '): every maximal run of class becomes one space
RECURSIVE replaceRunsWithSpace(_, _)
replaceRunsWithSpace(text, class) ==
    IF text = <<>> THEN <<>>
    ELSE IF Head(text) \in class
         THEN <<" ">> \o replaceRunsWithSpace(skipRun(text, class), class)
         ELSE <<Head(text)>> \o replaceRunsWithSpace(Tail(text), class)

\* text.replace(/\s{2,}/g, ' '): every run of two or more whitespace characters
\* becomes one space, a lone whitespace character stays
RECURSIVE collapseWhitespace(_)
collapseWhitespace(text) ==
    IF text = <<>> THEN <<>>
    ELSE IF Head(text) \in WhiteSpace /\ Len(text) >= 2 /\ text[2] \in WhiteSpace
         THEN <<" ">> \o collapseWhitespace(skipRun(text, WhiteSpace))
         ELSE <<Head(text)>> \o collapseWhitespace(Tail(text))

\* text.replace(/\{\s+/g, '{ ')
RECURSIVE spaceAfterOpen(_)
spaceAfterOpen(text) ==
    IF text = <<>> THEN <<>>
    ELSE IF Head(text) = "{" /\ Len(text) >= 2 /\ text[2] \in WhiteSpace
         THEN <<"{", " ">> \o spaceAfterOpen(skipRun(Tail(text), WhiteSpace))
         ELSE <<Head(text)>> \o spaceAfterOpen(Tail(text))

\* text.replace(/\s+\}/g, ' }')
RECURSIVE spaceBeforeClose(_)
spaceBeforeClose(text) ==
    IF text = <<>> THEN <<>>
    ELSE IF Head(text) \in WhiteSpace /\ startsWith(skipRun(text, WhiteSpace), "}")
         THEN <<" ", "}">> \o spaceBeforeClose(Tail(skipRun(text, WhiteSpace)))
         ELSE <<Head(text)>> \o spaceBeforeClose(Tail(text))

\* variant: lines.join(' ')
RECURSIVE joinLines_WithSpace(_)
joinLines_WithSpace(lines) ==
    IF lines = <<>> THEN <<>>
    ELSE IF Len(lines) = 1 THEN Head(lines)
    ELSE Head(lines) \o <<" ">> \o joinLines_WithSpace(Tail(lines))

\* lines.join('\n')
RECURSIVE joinLines(_)
joinLines(lines) ==
    IF lines = <<>> THEN <<>>
    ELSE IF Len(lines) = 1 THEN Head(lines)
    ELSE Head(lines) \o <<"\n">> \o joinLines(Tail(lines))

\* chars.join('')
RECURSIVE join(_)
join(chars) == IF chars = <<>> THEN <<>> ELSE Head(chars) \o join(Tail(chars))

\* text.split(''): one one-character string per character
split(text) == [k \in 1..Len(text) |-> <<text[k]>>]

-----------------------------------------------------------------------------
(* parser.ts                                                               *)

NEWLINE_RE == {"\r", "\n"}

END_BRACKET_RE == {"}", "]", ")"}

\* the backquote character (a TLA+ string cannot hold it)
BACKTICK == "BACKTICK"

QUOTE_RE == {"'", "\"", BACKTICK}

\* /[{[(]/ of the separator predicate
OPEN_BRACKET_RE == {"{", "[", "("}

\* variant: the test applied to the untrimmed text
detectLayout_NoTrim(text) ==
    IF regexTest(NEWLINE_RE, text) THEN MultiLine ELSE SingleLine

detectLayout(text) ==
    IF regexTest(NEWLINE_RE, trim(text)) THEN MultiLine ELSE SingleLine

\* variant: a closing bracket is never a break point itself
isSeparator_NoBreakAfterClosing(ch, next) ==
    \/ ch \in OPEN_BRACKET_RE
    \/ (next # "undefined" /\ next \in END_BRACKET_RE)
    \/ ch \in {",", ";"}

\* variant: the semicolon is not a break point
isSeparator_NoSemicolon(ch, next) ==
    \/ ch \in OPEN_BRACKET_RE
    \/ (ch \in END_BRACKET_RE /\ next # "undefined" /\ next \notin {",", ";"})
    \/ (next # "undefined" /\ next \in END_BRACKET_RE)
    \/ ch = ","

\* the predicate isSeparator of the loop body
isSeparator(ch, next) ==
    \/ ch \in OPEN_BRACKET_RE
    \/ (ch \in END_BRACKET_RE /\ next # "undefined" /\ next \notin {",", ";"})
    \/ (next # "undefined" /\ next \in END_BRACKET_RE)
    \/ ch \in {",", ";"}

\* variant: one push per rule that holds, the rule on next apart from the rules on ch
RECURSIVE scanSeparators_PushPerRule(_, _, _, _, _)
scanSeparators_PushPerRule(text, i, isInString, currentQuote, result) ==
    IF i >= Len(text) THEN result
    ELSE
      LET ch == charAt(text, i)
          next == charAt(text, i + 1)
          here == [index |-> i, isComma |-> (ch = ",")]
          byCh == \/ ch \in OPEN_BRACKET_RE
                  \/ (ch \in END_BRACKET_RE /\ next # "undefined" /\ next \notin {",", ";"})
                  \/ ch \in {",", ";"}
          byNext == next # "undefined" /\ next \in END_BRACKET_RE
          first == IF ~isInString /\ byCh THEN Append(result, here) ELSE result
          pushed == IF ~isInString /\ byNext THEN Append(first, here) ELSE first
          opens == ch \in QUOTE_RE /\ ~isInString
          closes == ch \in QUOTE_RE /\ isInString /\ currentQuote = ch
      IN  scanSeparators_PushPerRule(text, i + 1,
                         IF opens THEN TRUE ELSE IF closes THEN FALSE ELSE isInString,
                         IF opens THEN ch ELSE currentQuote,
                         pushed)

\* variant: any quote character ends the string, whatever opened it
RECURSIVE scanSeparators_AnyQuoteCloses(_, _, _, _, _)
scanSeparators_AnyQuoteCloses(text, i, isInString, currentQuote, result) ==
    IF i >= Len(text) THEN result
    ELSE
      LET ch == charAt(text, i)
          next == charAt(text, i + 1)
          pushed == IF ~isInString /\ isSeparator(ch, next)
                    THEN Append(result, [index |-> i, isComma |-> (ch = ",")])
                    ELSE result
          opens == ch \in QUOTE_RE /\ ~isInString
          closes == ch \in QUOTE_RE /\ isInString
      IN  scanSeparators_AnyQuoteCloses(text, i + 1,
                         IF opens THEN TRUE ELSE IF closes THEN FALSE ELSE isInString,
                         IF opens THEN ch ELSE currentQuote,
                         pushed)

\* the for loop of findSeparatorIndexes from offset i on
RECURSIVE scanSeparators(_, _, _, _, _)
scanSeparators(text, i, isInString, currentQuote, result) ==
    IF i >= Len(text) THEN result
    ELSE
      LET ch == charAt(text, i)
          next == charAt(text, i + 1)
          pushed == IF ~isInString /\ isSeparator(ch, next)
                    THEN Append(result, [index |-> i, isComma |-> (ch = ",")])
                    ELSE result
          opens == ch \in QUOTE_RE /\ ~isInString
          closes == ch \in QUOTE_RE /\ isInString /\ currentQuote = ch
      IN  scanSeparators(text, i + 1,
                         IF opens THEN TRUE ELSE IF closes THEN FALSE ELSE isInString,
                         IF opens THEN ch ELSE currentQuote,
                         pushed)

findSeparatorIndexes(text) == scanSeparators(text, 0, FALSE, "", <<>>)

\* variant: no string tracking, every brace counts
RECURSIVE scanBlocks_IgnoresStrings(_, _, _, _, _, _, _)
scanBlocks_IgnoresStrings(text, i, depth, blockStart, isInString, currentQuote, found) ==
    IF i >= Len(text) THEN found
    ELSE
      LET ch == charAt(text, i)
      IN  IF ch = "{"
          THEN scanBlocks_IgnoresStrings(text, i + 1, depth + 1,
                          IF depth = 0 THEN i ELSE blockStart,
                          isInString, currentQuote, found)
          ELSE IF ch = "}"
          THEN IF depth - 1 = 0 /\ blockStart # -1
               THEN scanBlocks_IgnoresStrings(text, i + 1, depth - 1, -1, isInString, currentQuote,
                               Append(found, [start |-> blockStart, end |-> i]))
               ELSE scanBlocks_IgnoresStrings(text, i + 1, depth - 1, blockStart,
                               isInString, currentQuote, found)
          ELSE scanBlocks_IgnoresStrings(text, i + 1, depth, blockStart,
                          isInString, currentQuote, found)

\* variant: a span is pushed at every closing brace while a start is pending
RECURSIVE scanBlocks_EmitsEveryClose(_, _, _, _, _, _, _)
scanBlocks_EmitsEveryClose(text, i, depth, blockStart, isInString, currentQuote, found) ==
    IF i >= Len(text) THEN found
    ELSE
      LET ch == charAt(text, i)
      IN  IF ch \in QUOTE_RE /\ ~isInString
          THEN scanBlocks_EmitsEveryClose(text, i + 1, depth, blockStart, TRUE, ch, found)
          ELSE IF ch \in QUOTE_RE /\ currentQuote = ch
          THEN scanBlocks_EmitsEveryClose(text, i + 1, depth, blockStart, FALSE, currentQuote, found)
          ELSE IF isInString
          THEN scanBlocks_EmitsEveryClose(text, i + 1, depth, blockStart, isInString, currentQuote, found)
          ELSE IF ch = "{"
          THEN scanBlocks_EmitsEveryClose(text, i + 1, depth + 1,
                          IF depth = 0 THEN i ELSE blockStart,
                          isInString, currentQuote, found)
          ELSE IF ch = "}"
          THEN IF blockStart # -1
               THEN scanBlocks_EmitsEveryClose(text, i + 1, depth - 1,
                               IF depth - 1 = 0 THEN -1 ELSE blockStart,
                               isInString, currentQuote,
                               Append(found, [start |-> blockStart, end |-> i]))
               ELSE scanBlocks_EmitsEveryClose(text, i + 1, depth - 1, blockStart,
                               isInString, currentQuote, found)
          ELSE scanBlocks_EmitsEveryClose(text, i + 1, depth, blockStart,
                          isInString, currentQuote, found)

\* variant: every opening brace becomes the pending start, whatever the depth
RECURSIVE scanBlocks_StartAtEveryOpen(_, _, _, _, _, _, _)
scanBlocks_StartAtEveryOpen(text, i, depth, blockStart, isInString, currentQuote, found) ==
    IF i >= Len(text) THEN found
    ELSE
      LET ch == charAt(text, i)
      IN  IF ch \in QUOTE_RE /\ ~isInString
          THEN scanBlocks_StartAtEveryOpen(text, i + 1, depth, blockStart, TRUE, ch, found)
          ELSE IF ch \in QUOTE_RE /\ currentQuote = ch
          THEN scanBlocks_StartAtEveryOpen(text, i + 1, depth, blockStart, FALSE, currentQuote, found)
          ELSE IF isInString
          THEN scanBlocks_StartAtEveryOpen(text, i + 1, depth, blockStart, isInString, currentQuote, found)
          ELSE IF ch = "{"
          THEN scanBlocks_StartAtEveryOpen(text, i + 1, depth + 1, i,
                          isInString, currentQuote, found)
          ELSE IF ch = "}"
          THEN IF depth - 1 = 0 /\ blockStart # -1
               THEN scanBlocks_StartAtEveryOpen(text, i + 1, depth - 1, -1, isInString, currentQuote,
                               Append(found, [start |-> blockStart, end |-> i]))
               ELSE scanBlocks_StartAtEveryOpen(text, i + 1, depth - 1, blockStart,
                               isInString, currentQuote, found)
          ELSE scanBlocks_StartAtEveryOpen(text, i + 1, depth, blockStart,
                          isInString, currentQuote, found)

\* variant: a start still pending at the end of the text is closed there
RECURSIVE scanBlocks_ClosesAtEnd(_, _, _, _, _, _, _)
scanBlocks_ClosesAtEnd(text, i, depth, blockStart, isInString, currentQuote, found) ==
    IF i >= Len(text)
    THEN IF blockStart # -1
         THEN Append(found, [start |-> blockStart, end |-> Len(text) - 1])
         ELSE found
    ELSE
      LET ch == charAt(text, i)
      IN  IF ch \in QUOTE_RE /\ ~isInString
          THEN scanBlocks_ClosesAtEnd(text, i + 1, depth, blockStart, TRUE, ch, found)
          ELSE IF ch \in QUOTE_RE /\ currentQuote = ch
          THEN scanBlocks_ClosesAtEnd(text, i + 1, depth, blockStart, FALSE, currentQuote, found)
          ELSE IF isInString
          THEN scanBlocks_ClosesAtEnd(text, i + 1, depth, blockStart, isInString, currentQuote, found)
          ELSE IF ch = "{"
          THEN scanBlocks_ClosesAtEnd(text, i + 1, depth + 1,
                          IF depth = 0 THEN i ELSE blockStart,
                          isInString, currentQuote, found)
          ELSE IF ch = "}"
          THEN IF depth - 1 = 0 /\ blockStart # -1
               THEN scanBlocks_ClosesAtEnd(text, i + 1, depth - 1, -1, isInString, currentQuote,
                               Append(found, [start |-> blockStart, end |-> i]))
               ELSE scanBlocks_ClosesAtEnd(text, i + 1, depth - 1, blockStart,
                               isInString, currentQuote, found)
          ELSE scanBlocks_ClosesAtEnd(text, i + 1, depth, blockStart, isInString, currentQuote, found)

\* the for loop of findBalancedBlocks from offset i on
RECURSIVE scanBlocks(_, _, _, _, _, _, _)
scanBlocks(text, i, depth, blockStart, isInString, currentQuote, found) ==
    IF i >= Len(text) THEN found
    ELSE
      LET ch == charAt(text, i)
      IN  IF ch \in QUOTE_RE /\ ~isInString
          THEN scanBlocks(text, i + 1, depth, blockStart, TRUE, ch, found)
          ELSE IF ch \in QUOTE_RE /\ currentQuote = ch
          THEN scanBlocks(text, i + 1, depth, blockStart, FALSE, currentQuote, found)
          ELSE IF isInString
          THEN scanBlocks(text, i + 1, depth, blockStart, isInString, currentQuote, found)
          ELSE IF ch = "{"
          THEN scanBlocks(text, i + 1, depth + 1,
                          IF depth = 0 THEN i ELSE blockStart,
                          isInString, currentQuote, found)
          ELSE IF ch = "}"
          THEN IF depth - 1 = 0 /\ blockStart # -1
               THEN scanBlocks(text, i + 1, depth - 1, -1, isInString, currentQuote,
                               Append(found, [start |-> blockStart, end |-> i]))
               ELSE scanBlocks(text, i + 1, depth - 1, blockStart,
                               isInString, currentQuote, found)
          ELSE scanBlocks(text, i + 1, depth, blockStart, isInString, currentQuote, found)

findBalancedBlocks(text) == scanBlocks(text, 0, 0, -1, FALSE, "", <<>>)

-----------------------------------------------------------------------------
(* transformer.ts                                                          *)

\* variant: the character class without \r
toSingleLine_KeepsCR(text) == replaceClassWithEmpty(trim(text), {"\n", "\t"})

\* variant: the character class \s, which also matches spaces
toSingleLine_StripsSpaces(text) == replaceClassWithEmpty(trim(text), WhiteSpace)

\* variant: the replace without the trim
toSingleLine_NoTrim(text) == replaceClassWithEmpty(text, {"\r", "\n", "\t"})

toSingleLine(text) == replaceClassWithEmpty(trim(text), {"\r", "\n", "\t"})

\* variant: the option is ignored, the break always follows the character
applySeparator_IgnoresOption(chars, sep, opts) ==
    [chars EXCEPT ![sep.index + 1] = @ \o <<"\n">>]

\* variant: the line break overwrites the character instead of joining it
applySeparator_Overwrites(chars, sep, opts) ==
    [chars EXCEPT ![sep.index + 1] = <<"\n">>]

\* variant: under the option a comma gets a line break on both sides
applySeparator_BreakBothSides(chars, sep, opts) ==
    IF opts.isCommaOnNewLine /\ sep.isComma
    THEN [chars EXCEPT ![sep.index + 1] = <<"\n">> \o @ \o <<"\n">>]
    ELSE [chars EXCEPT ![sep.index + 1] = @ \o <<"\n">>]

\* the body of the forEach callback: one separator applied to chars
applySeparator(chars, sep, opts) ==
    IF opts.isCommaOnNewLine /\ sep.isComma
    THEN [chars EXCEPT ![sep.index + 1] = <<"\n">> \o @]
    ELSE [chars EXCEPT ![sep.index + 1] = @ \o <<"\n">>]

\* variant: the iteration stops before the last separator
RECURSIVE forEachSeparator_SkipsLast(_, _, _)
forEachSeparator_SkipsLast(seps, chars, opts) ==
    IF Len(seps) <= 1 THEN chars
    ELSE forEachSeparator_SkipsLast(Tail(seps), applySeparator(chars, Head(seps), opts), opts)

\* separators.forEach(...), in array order
RECURSIVE forEachSeparator(_, _, _)
forEachSeparator(seps, chars, opts) ==
    IF seps = <<>> THEN chars
    ELSE forEachSeparator(Tail(seps), applySeparator(chars, Head(seps), opts), opts)

toMultiLine(text, opts) ==
    join(forEachSeparator(findSeparatorIndexes(text), split(text), opts))

\* variant: a blank buffer comes back trimmed
toggleLineLayout_ReturnsTrimmed(text, opts) ==
    LET trimmed == trim(text)
    IN  IF Len(trimmed) = 0 THEN trimmed
        ELSE IF detectLayout(trimmed) = MultiLine
             THEN toSingleLine(trimmed)
             ELSE toMultiLine(trimmed, opts)

\* variant: the single-line branch expands the untrimmed buffer
toggleLineLayout_ExpandsUntrimmed(text, opts) ==
    LET trimmed == trim(text)
    IN  IF Len(trimmed) = 0 THEN text
        ELSE IF detectLayout(trimmed) = MultiLine
             THEN toSingleLine(trimmed)
             ELSE toMultiLine(text, opts)

toggleLineLayout(text, opts) ==
    LET trimmed == trim(text)
    IN  IF Len(trimmed) = 0 THEN text
        ELSE IF detectLayout(trimmed) = MultiLine
             THEN toSingleLine(trimmed)
             ELSE toMultiLine(trimmed, opts)

\* variant: the whole text before the first block is taken as indentation
trailingIndent_WholePrefix(text) == text

\* beforeFirst.match(/([ \t]*)$/)[1]: the longest trailing run of spaces and tabs
RECURSIVE trailingIndent(_)
trailingIndent(text) ==
    IF text = <<>> THEN <<>>
    ELSE IF text[Len(text)] \in {" ", "\t"}
         THEN trailingIndent(SubSeq(text, 1, Len(text) - 1)) \o <<text[Len(text)]>>
         ELSE <<>>

\* variant: without the replace of the runs of \r, \n and \t
compactRaw_KeepsLineBreaks(raw) ==
    spaceBeforeClose(spaceAfterOpen(collapseWhitespace(raw)))

\* the four replaces that collapse the raw text of one block
compactRaw(raw) ==
    spaceBeforeClose(spaceAfterOpen(collapseWhitespace(
        replaceRunsWithSpace(raw, {"\r", "\n", "\t"}))))

\* variant: trailing text that starts with a comma is appended whole
compactLine_KeepsAfterComma(text, found, i, indent) ==
    LET block == found[i]
        raw == substring(text, block.start, block.end + 1)
        compacted == compactRaw(raw)
        nextStart == IF i + 1 <= Len(found) THEN found[i + 1].start ELSE Len(text)
        trailing == trim(substring(text, block.end + 1, nextStart))
    IN  IF trailing = <<",">> THEN indent \o compacted \o <<",">>
        ELSE IF startsWith(trailing, ",") THEN indent \o compacted \o trailing
        ELSE indent \o compacted \o (IF trailing # <<>> THEN <<" ">> \o trailing ELSE <<>>)

\* variant: the trailing text is taken without the trim
compactLine_TrailingUntrimmed(text, found, i, indent) ==
    LET block == found[i]
        raw == substring(text, block.start, block.end + 1)
        compacted == compactRaw(raw)
        nextStart == IF i + 1 <= Len(found) THEN found[i + 1].start ELSE Len(text)
        trailing == substring(text, block.end + 1, nextStart)
    IN  IF trailing = <<",">> THEN indent \o compacted \o <<",">>
        ELSE IF startsWith(trailing, ",") THEN indent \o compacted \o <<",">>
        ELSE indent \o compacted \o (IF trailing # <<>> THEN <<" ">> \o trailing ELSE <<>>)

\* the line pushed for block i (1-based) of found: the body of the for loop
compactLine(text, found, i, indent) ==
    LET block == found[i]
        raw == substring(text, block.start, block.end + 1)
        compacted == compactRaw(raw)
        nextStart == IF i + 1 <= Len(found) THEN found[i + 1].start ELSE Len(text)
        trailing == trim(substring(text, block.end + 1, nextStart))
    IN  IF trailing = <<",">> THEN indent \o compacted \o <<",">>
        ELSE IF startsWith(trailing, ",") THEN indent \o compacted \o <<",">>
        ELSE indent \o compacted \o (IF trailing # <<>> THEN <<" ">> \o trailing ELSE <<>>)

\* the array lines at the end of the for loop (found is not empty)
compactLines(text, found) ==
    LET beforeFirst == substring(text, 0, found[1].start)
        indent == trailingIndent(beforeFirst)
    IN  [i \in 1..Len(found) |-> compactLine(text, found, i, indent)]

\* variant: without blocks the text comes back as it is
compactBlocks_NoFallback(text) ==
    LET found == findBalancedBlocks(text)
    IN  IF Len(found) = 0 THEN text
        ELSE joinLines(compactLines(text, found))

compactBlocks(text) ==
    LET found == findBalancedBlocks(text)
    IN  IF Len(found) = 0 THEN toSingleLine(text)
        ELSE joinLines(compactLines(text, found))

-----------------------------------------------------------------------------
(* The state machine: one buffer, one call                                 *)

InitFrom(texts) ==
    /\ input \in texts
    /\ options = [isCommaOnNewLine |-> FALSE]
    /\ op = "none"
    /\ output = <<>>
    /\ layout = "none"
    /\ separators = <<>>
    /\ blocks = <<>>

Init == InitFrom(TextsOver(LayoutChars, MaxLen))

InitScan == InitFrom(TextsOver(ScanChars, MaxScanLen))

InitBlocks == InitFrom(TextsOver(BlockChars, MaxBlockLen))

InitCompact == InitFrom(TextsOver(CompactChars, MaxCompactLen))

InitQuoted == InitFrom(TextsOver(QuotedChars, MaxQuotedLen))

CallToggleLineLayout ==
    /\ op = "none"
    /\ \E o \in TransformOptions :
         /\ options' = o
         /\ output' = toggleLineLayout(input, o)
    /\ op' = "toggleLineLayout"
    /\ UNCHANGED <<input, layout, separators, blocks>>

CallToSingleLine ==
    /\ op = "none"
    /\ output' = toSingleLine(input)
    /\ op' = "toSingleLine"
    /\ UNCHANGED <<input, options, layout, separators, blocks>>

CallToMultiLine ==
    /\ op = "none"
    /\ \E o \in TransformOptions :
         /\ options' = o
         /\ output' = toMultiLine(input, o)
    /\ op' = "toMultiLine"
    /\ UNCHANGED <<input, layout, separators, blocks>>

CallDetectLayout ==
    /\ op = "none"
    /\ layout' = detectLayout(input)
    /\ op' = "detectLayout"
    /\ UNCHANGED <<input, options, output, separators, blocks>>

CallFindSeparatorIndexes ==
    /\ op = "none"
    /\ separators' = findSeparatorIndexes(input)
    /\ op' = "findSeparatorIndexes"
    /\ UNCHANGED <<input, options, output, layout, blocks>>

CallFindBalancedBlocks ==
    /\ op = "none"
    /\ blocks' = findBalancedBlocks(input)
    /\ op' = "findBalancedBlocks"
    /\ UNCHANGED <<input, options, output, layout, separators>>

CallCompactBlocks ==
    /\ op = "none"
    /\ output' = compactBlocks(input)
    /\ op' = "compactBlocks"
    /\ UNCHANGED <<input, options, layout, separators, blocks>>

Next ==
    \/ CallToggleLineLayout
    \/ CallToSingleLine
    \/ CallToMultiLine
    \/ CallDetectLayout
    \/ CallFindSeparatorIndexes
    \/ CallFindBalancedBlocks
    \/ CallCompactBlocks

Spec == Init /\ [][Next]_vars

SpecScan == InitScan /\ [][Next]_vars

SpecBlocks == InitBlocks /\ [][Next]_vars

SpecCompact == InitCompact /\ [][Next]_vars

SpecQuoted == InitQuoted /\ [][Next]_vars

-----------------------------------------------------------------------------
(* Vocabulary of the properties, stated on positions rather than by scans  *)

\* positions (1-based) of the characters that are not whitespace
NonBlankPositions(t) == {k \in DOMAIN t : t[k] \notin WhiteSpace}

IsBlank(t) == NonBlankPositions(t) = {}

\* t without its leading and trailing whitespace
Stripped(t) ==
    IF IsBlank(t) THEN <<>>
    ELSE LET first == CHOOSE k \in NonBlankPositions(t) : \A j \in NonBlankPositions(t) : k <= j
             last == CHOOSE k \in NonBlankPositions(t) : \A j \in NonBlankPositions(t) : k >= j
         IN  SubSeq(t, first, last)

HasLineBreak(t) == \E k \in DOMAIN t : t[k] \in {"\n", "\r"}

HasTab(t) == \E k \in DOMAIN t : t[k] = "\t"

IsLineBreakOrTab(c) == c \in {"\r", "\n", "\t"}

\* the quote that is open after the first n characters of t ("" when none is)
RECURSIVE OpenQuoteAfter(_, _)
OpenQuoteAfter(t, n) ==
    IF n = 0 THEN ""
    ELSE LET q == OpenQuoteAfter(t, n - 1)
         IN  IF q = "" THEN (IF t[n] \in {"'", "\"", BACKTICK} THEN t[n] ELSE "")
             ELSE IF t[n] = q THEN "" ELSE q

\* the character at position k (1-based) follows an opening quote that is still open
InQuotedString(t, k) == OpenQuoteAfter(t, k - 1) # ""

\* positions of t, outside quoted strings, that one of the four separator rules names
SeparatorPositions(t) ==
    {k \in DOMAIN t :
        /\ ~InQuotedString(t, k)
        /\ \/ t[k] \in {"{", "[", "(", ",", ";"}
           \/ (t[k] \in {"}", "]", ")"} /\ k < Len(t) /\ t[k + 1] \notin {",", ";"})
           \/ (k < Len(t) /\ t[k + 1] \in {"}", "]", ")"})}

-----------------------------------------------------------------------------
(* Properties                                                              *)

\* C1: toggleLineLayout returns an empty or whitespace-only buffer unchanged,
\* untrimmed, for either value of isCommaOnNewLine.
C1_BlankUnchanged ==
    (op = "toggleLineLayout" /\ IsBlank(input)) => output = input

C1_Witness ==
    /\ op = "toggleLineLayout"
    /\ options.isCommaOnNewLine
    /\ Len(input) >= 2
    /\ IsBlank(input)
    /\ output = input

\* C2: on a non-blank buffer toggleLineLayout returns toSingleLine of the trimmed
\* buffer when the buffer's layout is MultiLine and toMultiLine of the trimmed
\* buffer, with the call's options, when it is SingleLine.
C2_ToggleDispatch ==
    (op = "toggleLineLayout" /\ ~IsBlank(input)) =>
        \/ /\ HasLineBreak(Stripped(input))
           /\ detectLayout(input) = MultiLine
           /\ output = toSingleLine(Stripped(input))
        \/ /\ ~HasLineBreak(Stripped(input))
           /\ detectLayout(input) = SingleLine
           /\ output = toMultiLine(Stripped(input), options)

C2_Witness ==
    /\ op = "toggleLineLayout"
    /\ Stripped(input) # input
    /\ ~HasLineBreak(Stripped(input))
    /\ HasLineBreak(input)
    /\ output = toMultiLine(Stripped(input), options)
    /\ output # Stripped(input)

\* C3 as stated: on a non-blank buffer with a line break anywhere in it,
\* toggleLineLayout returns a buffer without line breaks.
C3_LineBreakAnywhere ==
    (op = "toggleLineLayout" /\ ~IsBlank(input) /\ HasLineBreak(input)) =>
        ~HasLineBreak(output)

\* C3 amended: on a buffer whose trimmed text contains a line break,
\* toggleLineLayout returns a buffer without line breaks.
C3_LineBreakInTrimmed ==
    (op = "toggleLineLayout" /\ HasLineBreak(Stripped(input))) =>
        ~HasLineBreak(output)

C3_Witness ==
    /\ op = "toggleLineLayout"
    /\ \E k \in DOMAIN input : input[k] = "\r"
    /\ \E k \in DOMAIN input : input[k] = "\n"
    /\ HasLineBreak(Stripped(input))
    /\ ~HasLineBreak(output)
    /\ Len(output) >= 2

\* C4: on a non-blank buffer without line break whose trimmed text has a
\* separator position, toggleLineLayout returns a buffer with a line break.
C4_SeparatorGivesBreak ==
    (/\ op = "toggleLineLayout"
     /\ ~IsBlank(input)
     /\ ~HasLineBreak(input)
     /\ SeparatorPositions(Stripped(input)) # {}) => HasLineBreak(output)

C4_Witness ==
    /\ op = "toggleLineLayout"
    /\ ~HasLineBreak(input)
    /\ Cardinality(SeparatorPositions(Stripped(input))) = 1
    /\ \E k \in DOMAIN input : InQuotedString(input, k) /\ input[k] = ","
    /\ OpenQuoteAfter(input, Len(input)) = ""
    /\ HasLineBreak(output)

\* C5 as stated: toggling twice with the same options brings a non-blank buffer
\* without line break and tab back to its trimmed text.
C5_RoundTrip ==
    (op = "toggleLineLayout" /\ ~IsBlank(input) /\ ~HasLineBreak(input) /\ ~HasTab(input)) =>
        toggleLineLayout(output, options) = Stripped(input)

\* C5 amended: the second toggle gives the trimmed buffer back when the first
\* result, trimmed, still contains a line break; otherwise it gives the first
\* result again.
C5_RoundTripWhenBreakInside ==
    (op = "toggleLineLayout" /\ ~IsBlank(input) /\ ~HasLineBreak(input) /\ ~HasTab(input)) =>
        IF HasLineBreak(Stripped(output))
        THEN toggleLineLayout(output, options) = Stripped(input)
        ELSE toggleLineLayout(output, options) = output

C5_Witness ==
    /\ op = "toggleLineLayout"
    /\ options.isCommaOnNewLine
    /\ ~HasLineBreak(input)
    /\ ~HasTab(input)
    /\ \A k \in DOMAIN input : input[k] \notin {"'", "\""}
    /\ \E k \in DOMAIN input : input[k] = ","
    /\ Stripped(input) # input
    /\ HasLineBreak(Stripped(output))
    /\ toggleLineLayout(output, options) = Stripped(input)

\* C6: toSingleLine returns the trimmed buffer with every \r, \n and \t deleted
\* and every other character kept in order, so the result holds none of them.
C6_SingleLineDeletesBreaks ==
    op = "toSingleLine" =>
        /\ output = SelectSeq(Stripped(input), LAMBDA c : ~IsLineBreakOrTab(c))
        /\ \A k \in DOMAIN output : ~IsLineBreakOrTab(output[k])

C6_Witness ==
    /\ op = "toSingleLine"
    /\ Stripped(input) # input
    /\ HasTab(Stripped(input))
    /\ \E k \in DOMAIN output : output[k] = " "
    /\ Len(output) < Len(Stripped(input))

\* C7: toSingleLine is idempotent.
C7_SingleLineIdempotent ==
    op = "toSingleLine" => toSingleLine(output) = output

C7_Witness ==
    /\ op = "toSingleLine"
    /\ Len(input) - Len(output) >= 2
    /\ Len(output) >= 2
    /\ Len(Stripped(input)) > Len(output)
    /\ toSingleLine(output) = output

\* C8: detectLayout answers MultiLine exactly when the buffer without its leading
\* and trailing whitespace contains \n or \r; blank buffers are SingleLine.
C8_LayoutOfTrimmed ==
    op = "detectLayout" =>
        /\ layout \in {SingleLine, MultiLine}
        /\ layout = MultiLine <=> HasLineBreak(Stripped(input))
        /\ IsBlank(input) => layout = SingleLine

C8_Witness ==
    /\ op = "detectLayout"
    /\ Len(input) >= 2
    /\ \A k \in DOMAIN input : input[k] \in {"\n", "\r"}
    /\ layout = SingleLine

\* C9: in the result of toMultiLine on a single-line buffer every comma outside
\* a quoted string has a line break right before it when isCommaOnNewLine is
\* true and right after it when isCommaOnNewLine is false.
C9_CommaPlacement ==
    (op = "toMultiLine" /\ ~HasLineBreak(input)) =>
        \A k \in DOMAIN output :
            (output[k] = "," /\ ~InQuotedString(output, k)) =>
                IF options.isCommaOnNewLine
                THEN k > 1 /\ output[k - 1] = "\n"
                ELSE k < Len(output) /\ output[k + 1] = "\n"

C9_Witness ==
    /\ op = "toMultiLine"
    /\ options.isCommaOnNewLine
    /\ ~HasLineBreak(input)
    /\ \E k \in DOMAIN input : input[k] = "," /\ InQuotedString(input, k)
    /\ OpenQuoteAfter(input, Len(input)) = ""
    /\ \E k \in DOMAIN output :
         output[k] = "," /\ ~InQuotedString(output, k) /\ k > 1 /\ output[k - 1] = "\n"

\* C10 as stated: in the result of toMultiLine on a single-line buffer every
\* closing bracket outside a quoted string, other than the first character of
\* the buffer, has a line break right before it, whatever precedes it.
C10_BreakBeforeClosingBracket ==
    (op = "toMultiLine" /\ ~HasLineBreak(input)) =>
        \A k \in DOMAIN output :
            (k > 1 /\ output[k] \in {"}", "]", ")"} /\ ~InQuotedString(output, k)) =>
                output[k - 1] = "\n"

\* C11: in the result of toMultiLine on a single-line buffer every closing
\* bracket outside a quoted string, other than the last character of the buffer,
\* is followed by a line break, at once or right after the one comma or
\* semicolon that follows the bracket.
C11_BreakAfterClosingBracket ==
    (op = "toMultiLine" /\ ~HasLineBreak(input)) =>
        \A k \in DOMAIN output :
            (/\ output[k] \in {"}", "]", ")"}
             /\ ~InQuotedString(output, k)
             /\ \E j \in DOMAIN output : j > k /\ output[j] # "\n") =>
                \/ output[k + 1] = "\n"
                \/ /\ output[k + 1] \in {",", ";"}
                   /\ k + 2 <= Len(output)
                   /\ output[k + 2] = "\n"

C11_Witness ==
    /\ op = "toMultiLine"
    /\ ~options.isCommaOnNewLine
    /\ \E k \in DOMAIN output :
         /\ k + 3 <= Len(output)
         /\ output[k] = ")"
         /\ ~InQuotedString(output, k)
         /\ output[k + 1] = ","
         /\ output[k + 2] = "\n"
    /\ \E k \in DOMAIN output :
         /\ k + 2 <= Len(output)
         /\ output[k] = "}"
         /\ ~InQuotedString(output, k)
         /\ output[k + 1] = "\n"

\* C12 as stated: findSeparatorIndexes never records the offset of a quote
\* character or of a character inside a quoted string, so toMultiLine puts no
\* line break between an opening quote and its closing quote.
C12_NoSeparatorInString ==
    op = "findSeparatorIndexes" =>
        \A n \in DOMAIN separators :
            /\ input[separators[n].index + 1] \notin {"'", "\"", BACKTICK}
            /\ ~InQuotedString(input, separators[n].index + 1)

\* C14: the offsets returned by findSeparatorIndexes are strictly ascending,
\* hence unique, and each is an offset of the text.
C14_SeparatorsAscending ==
    op = "findSeparatorIndexes" =>
        /\ \A n \in DOMAIN separators :
               separators[n].index >= 0 /\ separators[n].index < Len(input)
        /\ \A n \in DOMAIN separators :
               n > 1 => separators[n - 1].index < separators[n].index

C14_Witness ==
    /\ op = "findSeparatorIndexes"
    /\ Len(separators) >= 3
    /\ \E n \in DOMAIN separators :
         /\ input[separators[n].index + 1] \in {",", "("}
         /\ separators[n].index + 2 <= Len(input)
         /\ input[separators[n].index + 2] \in {")", "}"}

\* position k (1-based) of t lies strictly between an opening quote and the
\* closing quote that matches it
InsideClosedString(t, k) ==
    /\ InQuotedString(t, k)
    /\ t[k] # OpenQuoteAfter(t, k - 1)
    /\ \E j \in DOMAIN t : j > k /\ OpenQuoteAfter(t, j - 1) # "" /\ OpenQuoteAfter(t, j) = ""

\* nesting of the braces outside strings over positions from..to (1-based) of t
BraceDepth(t, from, to) ==
    Cardinality({i \in from..to : t[i] = "{" /\ ~InQuotedString(t, i)})
      - Cardinality({i \in from..to : t[i] = "}" /\ ~InQuotedString(t, i)})

\* C13: a brace or comma strictly inside a quoted string is never an offset of
\* findSeparatorIndexes, never starts or ends a span of findBalancedBlocks, and
\* the spans are those of the text with that brace replaced by a letter.
C13_QuoteBlindness ==
    /\ op = "findSeparatorIndexes" =>
         \A k \in DOMAIN input :
             (input[k] \in {"{", "}", ","} /\ InsideClosedString(input, k)) =>
                 \A n \in DOMAIN separators : separators[n].index # k - 1
    /\ op = "findBalancedBlocks" =>
         \A k \in DOMAIN input :
             (input[k] \in {"{", "}"} /\ InsideClosedString(input, k)) =>
                 /\ \A n \in DOMAIN blocks :
                        blocks[n].start # k - 1 /\ blocks[n].end # k - 1
                 /\ blocks = findBalancedBlocks([input EXCEPT ![k] = "a"])

C13_Witness ==
    /\ op = "findBalancedBlocks"
    /\ Len(blocks) = 1
    /\ \E k \in DOMAIN input : input[k] = "{" /\ InsideClosedString(input, k)
    /\ \E k \in DOMAIN input : input[k] = "{" /\ ~InQuotedString(input, k)

\* C15: the spans of findBalancedBlocks do not overlap and ascend:
\* start < end within a span, and the end of a span is before the next start.
C15_BlocksAscending ==
    op = "findBalancedBlocks" =>
        /\ \A n \in DOMAIN blocks : blocks[n].start < blocks[n].end
        /\ \A n \in DOMAIN blocks : n > 1 => blocks[n - 1].end < blocks[n].start

C15_Witness ==
    /\ op = "findBalancedBlocks"
    /\ Len(blocks) = 2
    /\ blocks[1].end + 1 < blocks[2].start

\* C16: a span starts at an opening brace and ends at a closing brace, both
\* outside strings; the nesting of the braces outside strings stays positive
\* inside the span and is back to zero at its end; no span lies inside another.
C16_BlocksBalanced ==
    op = "findBalancedBlocks" =>
        /\ \A n \in DOMAIN blocks :
               LET from == blocks[n].start + 1
                   to == blocks[n].end + 1
               IN  /\ from \in DOMAIN input /\ to \in DOMAIN input
                   /\ input[from] = "{" /\ ~InQuotedString(input, from)
                   /\ input[to] = "}" /\ ~InQuotedString(input, to)
                   /\ \A j \in from..(to - 1) : BraceDepth(input, from, j) > 0
                   /\ BraceDepth(input, from, to) = 0
        /\ \A m, n \in DOMAIN blocks :
               m # n => ~(blocks[n].start <= blocks[m].start /\ blocks[m].end <= blocks[n].end)

C16_Witness ==
    /\ op = "findBalancedBlocks"
    /\ Len(blocks) = 1
    /\ blocks[1].start > 0
    /\ BraceDepth(input, blocks[1].start + 1, blocks[1].start + 2) = 2

\* the lines of t: the pieces between its line breaks
RECURSIVE LinesOf(_)
LinesOf(t) ==
    IF \A k \in DOMAIN t : t[k] # "\n" THEN <<t>>
    ELSE LET cut == CHOOSE k \in DOMAIN t : t[k] = "\n" /\ \A j \in 1..(k - 1) : t[j] # "\n"
         IN  <<SubSeq(t, 1, cut - 1)>> \o LinesOf(SubSeq(t, cut + 1, Len(t)))

\* t without any whitespace
Squeezed(t) == SelectSeq(t, LAMBDA c : c \notin WhiteSpace)

\* the raw text of span b of t
RawBlock(t, b) == SubSeq(t, b.start + 1, b.end + 1)

\* the positions (1-based) of t that no span of bs covers
OutsideBlocks(t, bs) ==
    {k \in DOMAIN t : \A n \in DOMAIN bs : k < bs[n].start + 1 \/ k > bs[n].end + 1}

\* the longest run of spaces and tabs that ends right before position k (1-based)
IndentBefore(t, k) ==
    LET from == CHOOSE f \in 1..k :
                    /\ \A j \in f..(k - 1) : t[j] \in {" ", "\t"}
                    /\ (f > 1 => t[f - 1] \notin {" ", "\t"})
    IN  SubSeq(t, from, k - 1)

IsPrefix(p, t) == Len(p) <= Len(t) /\ SubSeq(t, 1, Len(p)) = p

\* C17: without any balanced block compactBlocks returns what toSingleLine
\* returns: the trimmed buffer without \r, \n and \t, which has no line break.
C17_FallbackToSingleLine ==
    (op = "compactBlocks" /\ findBalancedBlocks(input) = <<>>) =>
        /\ output = SelectSeq(Stripped(input), LAMBDA c : ~IsLineBreakOrTab(c))
        /\ ~HasLineBreak(output)

C17_Witness ==
    /\ op = "compactBlocks"
    /\ findBalancedBlocks(input) = <<>>
    /\ \E k \in DOMAIN input : input[k] = "{"
    /\ HasLineBreak(Stripped(input))
    /\ Len(output) >= 2
    /\ ~HasLineBreak(output)

\* C18: when the buffer holds N >= 1 top-level blocks and nothing but commas and
\* whitespace around them, compactBlocks returns exactly N lines and line i
\* holds block i (its text up to whitespace, with at most a comma after it).
C18_OneLinePerBlock ==
    LET found == findBalancedBlocks(input)
    IN  (/\ op = "compactBlocks"
         /\ Len(found) >= 1
         /\ \A k \in OutsideBlocks(input, found) : input[k] \in WhiteSpace \cup {","}) =>
            /\ Len(LinesOf(output)) = Len(found)
            /\ \A i \in DOMAIN found :
                   \/ Squeezed(LinesOf(output)[i]) = Squeezed(RawBlock(input, found[i]))
                   \/ Squeezed(LinesOf(output)[i]) = Squeezed(RawBlock(input, found[i])) \o <<",">>

C18_Witness ==
    /\ op = "compactBlocks"
    /\ Len(findBalancedBlocks(input)) = 2
    /\ \A k \in OutsideBlocks(input, findBalancedBlocks(input)) : input[k] \in WhiteSpace \cup {","}
    /\ Len(LinesOf(output)) = 2
    /\ LinesOf(output)[1] = <<"{", "}", ",">>
    /\ LinesOf(output)[2] = <<"{", "}">>

\* C19 as stated: whenever a block is found, whatever lies between and after
\* the blocks, the result has one line per block and neither starts nor ends
\* with a blank line.
C19_AlwaysOneLinePerBlock ==
    (op = "compactBlocks" /\ Len(findBalancedBlocks(input)) >= 1) =>
        /\ Len(LinesOf(output)) = Len(findBalancedBlocks(input))
        /\ ~IsBlank(LinesOf(output)[1])
        /\ ~IsBlank(LinesOf(output)[Len(LinesOf(output))])

\* C20: every line emitted for a block starts with the longest run of spaces and
\* tabs that precedes the first block's opening brace, followed by that brace;
\* the result starts with it, so nothing else from before the first block is kept.
C20_IndentOfFirstBlock ==
    LET found == findBalancedBlocks(input)
    IN  (op = "compactBlocks" /\ Len(found) >= 1) =>
            LET prefix == IndentBefore(input, found[1].start + 1) \o <<"{">>
                lines == compactLines(input, found)
            IN  /\ Len(lines) = Len(found)
                /\ \A i \in DOMAIN lines : IsPrefix(prefix, lines[i])
                /\ IsPrefix(prefix, output)
                /\ Len(output) = Len(lines) - 1 + Len(join(lines))

C20_Witness ==
    /\ op = "compactBlocks"
    /\ Len(findBalancedBlocks(input)) = 2
    /\ IndentBefore(input, findBalancedBlocks(input)[1].start + 1) = <<" ">>
    /\ LinesOf(output) = << <<" ", "{", "}">>, <<" ", "{", "}">> >>

\* the trimmed text between the end of span i of found and the next span's
\* start (the end of t after the last span)
TrailingText(t, found, i) ==
    Stripped(SubSeq(t, found[i].end + 2,
                    IF i < Len(found) THEN found[i + 1].start ELSE Len(t)))

\* C21: the line of each block is indent + collapsed block, followed by a comma
\* alone when the trimmed trailing text starts with a comma, by one space and
\* the trimmed trailing text when it is not empty and starts otherwise, and by
\* nothing when it is empty; the result is these lines joined by line breaks.
C21_TrailingContent ==
    LET found == findBalancedBlocks(input)
    IN  (op = "compactBlocks" /\ Len(found) >= 1) =>
            LET indent == IndentBefore(input, found[1].start + 1)
                line(i) ==
                    LET t == TrailingText(input, found, i)
                        head == indent \o compactRaw(RawBlock(input, found[i]))
                    IN  IF t = <<>> THEN head
                        ELSE IF t[1] = "," THEN head \o <<",">>
                        ELSE head \o <<" ">> \o t
            IN  output = joinLines([i \in DOMAIN found |-> line(i)])

C21_Witness ==
    /\ op = "compactBlocks"
    /\ Len(findBalancedBlocks(input)) = 1
    /\ Len(TrailingText(input, findBalancedBlocks(input), 1)) >= 2
    /\ TrailingText(input, findBalancedBlocks(input), 1)[1] = ","
    /\ TrailingText(input, findBalancedBlocks(input), 1)[2] = "a"
    /\ output = <<"{", "}", ",">>

\* the number of positions of t that hold character c
CountOf(t, c) == Cardinality({k \in DOMAIN t : t[k] = c})

\* C22: toMultiLine only inserts line breaks.  On a buffer without \n the
\* result without its \n characters is the buffer, the result holds as many \n
\* as findSeparatorIndexes returns locations, and the n-th location has its own
\* \n next to its character: before it for a comma under isCommaOnNewLine,
\* after it otherwise, whatever the neighbouring locations are.
C22_OnlyInsertsBreaks ==
    LET seps == findSeparatorIndexes(input)
    IN  (op = "toMultiLine" /\ CountOf(input, "\n") = 0) =>
            /\ SelectSeq(output, LAMBDA c : c # "\n") = input
            /\ CountOf(output, "\n") = Len(seps)
            /\ Len(output) = Len(input) + Len(seps)
            /\ \A n \in DOMAIN seps :
                   LET p == seps[n].index + n
                   IN  IF options.isCommaOnNewLine /\ input[seps[n].index + 1] = ","
                       THEN output[p] = "\n" /\ output[p + 1] = ","
                       ELSE output[p] = input[seps[n].index + 1] /\ output[p + 1] = "\n"

C22_Witness ==
    /\ op = "toMultiLine"
    /\ options.isCommaOnNewLine
    /\ Len(findSeparatorIndexes(input)) = 3
    /\ \E n \in 1..2 :
         /\ findSeparatorIndexes(input)[n].index + 1 = findSeparatorIndexes(input)[n + 1].index
         /\ findSeparatorIndexes(input)[n].isComma
    /\ \E k \in DOMAIN input : input[k] = "a"
    /\ CountOf(output, "\n") = 3
    /\ SelectSeq(output, LAMBDA c : c # "\n") = input

\* C23: findSeparatorIndexes records every opening bracket, comma and semicolon
\* that lies outside a quoted string, and a recorded location has isComma true
\* exactly when the character at its index is a comma.
C23_BracketsAndCommasRecorded ==
    op = "findSeparatorIndexes" =>
        /\ \A k \in DOMAIN input :
               (input[k] \in {"{", "[", "(", ",", ";"} /\ ~InQuotedString(input, k)) =>
                   \E n \in DOMAIN separators : separators[n].index = k - 1
        /\ \A n \in DOMAIN separators :
               separators[n].isComma <=> (input[separators[n].index + 1] = ",")

C23_Witness ==
    /\ op = "findSeparatorIndexes"
    /\ \E n \in DOMAIN separators :
         input[separators[n].index + 1] = "(" /\ ~separators[n].isComma
    /\ \E n \in DOMAIN separators :
         input[separators[n].index + 1] = ";" /\ ~separators[n].isComma
    /\ \E n \in DOMAIN separators :
         input[separators[n].index + 1] = "," /\ separators[n].isComma
    /\ Len(separators) < Len(input)

\* position k (1-based) of t holds an opening brace outside strings, met at
\* nesting depth 0, that no closing brace matches before the end of t
UnmatchedOpenAt(t, k) ==
    /\ t[k] = "{"
    /\ ~InQuotedString(t, k)
    /\ BraceDepth(t, 1, k - 1) = 0
    /\ \A j \in k..Len(t) : BraceDepth(t, k, j) > 0

\* C24: an opening brace met outside a string at depth 0 and never matched
\* starts no span, no span starts after it, and the spans are those of the
\* text before it.
C24_UnbalancedOpenBrace ==
    op = "findBalancedBlocks" =>
        \A k \in DOMAIN input :
            UnmatchedOpenAt(input, k) =>
                /\ \A n \in DOMAIN blocks : blocks[n].start < k - 1 /\ blocks[n].end < k - 1
                /\ blocks = findBalancedBlocks(SubSeq(input, 1, k - 1))

C24_Witness ==
    /\ op = "findBalancedBlocks"
    /\ Len(blocks) = 1
    /\ \E k \in DOMAIN input :
         /\ UnmatchedOpenAt(input, k)
         /\ blocks[1].end < k - 1
         /\ \E j \in DOMAIN input : j > k + 1 /\ input[j] = "}" /\ ~InQuotedString(input, j)

\* position i (1-based) of t holds a quote character met outside a string
OpensString(t, i) == t[i] \in {"'", "\"", BACKTICK} /\ ~InQuotedString(t, i)

\* the position of the next occurrence after i of the character at i
\* (Len(t) + 1 when there is none)
NextSameAfter(t, i) ==
    IF \E j \in (i + 1)..Len(t) : t[j] = t[i]
    THEN CHOOSE j \in (i + 1)..Len(t) :
             t[j] = t[i] /\ \A m \in (i + 1)..(j - 1) : t[m] # t[i]
    ELSE Len(t) + 1

\* the positions (1-based) that the locations of seps name
RecordedPositions(seps) == {seps[n].index + 1 : n \in DOMAIN seps}

\* C25: quotes match by kind.  For a quote met outside a string at position i
\* and the next occurrence j of the same character, whatever precedes j (another
\* kind of quote, a backslash): findSeparatorIndexes records nothing after i up
\* to and including j, and what it records after j is what it records on the
\* text after j alone; findBalancedBlocks returns the spans of the text in
\* which positions i..j hold letters.
C25_QuoteMatchingByKind ==
    /\ op = "findSeparatorIndexes" =>
         \A i \in DOMAIN input :
             OpensString(input, i) =>
                 LET j == NextSameAfter(input, i)
                     rest == findSeparatorIndexes(SubSeq(input, j + 1, Len(input)))
                 IN  /\ RecordedPositions(separators) \cap ((i + 1)..j) = {}
                     /\ {p \in RecordedPositions(separators) : p > j}
                          = {p + j : p \in RecordedPositions(rest)}
    /\ op = "findBalancedBlocks" =>
         \A i \in DOMAIN input :
             OpensString(input, i) =>
                 LET j == NextSameAfter(input, i)
                 IN  blocks = findBalancedBlocks(
                         [k \in DOMAIN input |-> IF k \in i..j THEN "a" ELSE input[k]])

C25_Witness ==
    /\ op = "findSeparatorIndexes"
    /\ Len(input) = 4
    /\ input[1] = "\""
    /\ input[2] \in {"'", "\\"}
    /\ input[3] = "\""
    /\ input[4] = ","
    /\ separators = <<[index |-> 3, isComma |-> TRUE]>>

\* t holds two whitespace characters next to each other
HasAdjacentWhitespace(t) ==
    \E k \in 1..(Len(t) - 1) : t[k] \in WhiteSpace /\ t[k + 1] \in WhiteSpace

\* C26: the rendering of every block, which follows the indent on the block's
\* line, holds no \r, \n or \t and no two adjacent whitespace characters, and
\* it is the raw block up to whitespace: without whitespace both are the same
\* text, which starts with { and ends with }.
C26_BlockRendering ==
    LET found == findBalancedBlocks(input)
    IN  (op = "compactBlocks" /\ Len(found) >= 1) =>
            /\ output = joinLines(compactLines(input, found))
            /\ \A i \in DOMAIN found :
                   LET raw == RawBlock(input, found[i])
                       rendering == compactRaw(raw)
                       indent == IndentBefore(input, found[1].start + 1)
                   IN  /\ IsPrefix(indent \o rendering, compactLines(input, found)[i])
                       /\ \A k \in DOMAIN rendering : ~IsLineBreakOrTab(rendering[k])
                       /\ ~HasAdjacentWhitespace(rendering)
                       /\ Squeezed(rendering) = Squeezed(raw)
                       /\ rendering[1] = "{"
                       /\ rendering[Len(rendering)] = "}"

C26_Witness ==
    /\ op = "compactBlocks"
    /\ Len(input) = 5
    /\ input[3] = "\t"
    /\ output = <<"{", "a", " ", "a", "}">>

\* the braces of t outside strings are balanced: the nesting is never negative
\* and is zero at the end
BracesBalanced(t) ==
    /\ \A k \in DOMAIN t : BraceDepth(t, 1, k) >= 0
    /\ BraceDepth(t, 1, Len(t)) = 0

\* the spans of bs moved by d offsets
Shifted(bs, d) == [n \in DOMAIN bs |-> [start |-> bs[n].start + d, end |-> bs[n].end + d]]

\* C27 as stated: a closing brace in front of a text with balanced braces does
\* not hide the blocks of the text: the spans are those of the text, one offset
\* further.
C27_StrayCloseKeepsBlocks ==
    (/\ op = "findBalancedBlocks"
     /\ Len(input) >= 1
     /\ input[1] = "}"
     /\ BracesBalanced(Tail(input))) =>
        blocks = Shifted(findBalancedBlocks(Tail(input)), 1)

\* C28: compactBlocks is idempotent: compacting its result again gives the
\* result back, when blocks were found and on the single-line fallback.
C28_CompactIdempotent ==
    op = "compactBlocks" => compactBlocks(output) = output

C28_Witness ==
    /\ op = "compactBlocks"
    /\ Len(findBalancedBlocks(input)) = 2
    /\ output # input
    /\ HasLineBreak(output)
    /\ \E k \in DOMAIN output : output[k] = "a"
    /\ compactBlocks(output) = output

\* p occurs in t as a run of consecutive characters
Occurs(p, t) ==
    \E s \in 0..(Len(t) - Len(p)) : SubSeq(t, s + 1, s + Len(p)) = p

\* C29 as stated: every quoted string that lies within a discovered block, from
\* its opening quote to its closing quote, occurs character for character in
\* the result of compactBlocks.
C29_StringsUnchanged ==
    LET found == findBalancedBlocks(input)
    IN  op = "compactBlocks" =>
            \A n \in DOMAIN found :
                \A i \in (found[n].start + 1)..(found[n].end + 1) :
                    (OpensString(input, i) /\ NextSameAfter(input, i) <= found[n].end + 1) =>
                        Occurs(SubSeq(input, i, NextSameAfter(input, i)), output)

\* C30 as stated: the result of toMultiLine on a single-line buffer never holds
\* two consecutive line breaks, for either option value.
C30_NoBlankLines ==
    (op = "toMultiLine" /\ ~HasLineBreak(input)) =>
        \A k \in 1..(Len(output) - 1) : ~(output[k] = "\n" /\ output[k + 1] = "\n")

\* C30 amended: two consecutive line breaks occur only under isCommaOnNewLine,
\* between an opening bracket or a semicolon and the comma that directly
\* follows it; without the option, and everywhere else, line breaks are single.
C30_BlankLineOnlyBeforeComma ==
    (op = "toMultiLine" /\ ~HasLineBreak(input)) =>
        \A k \in 1..(Len(output) - 1) :
            (output[k] = "\n" /\ output[k + 1] = "\n") =>
                /\ options.isCommaOnNewLine
                /\ k > 1
                /\ output[k - 1] \in {"{", "[", "(", ";"}
                /\ k + 2 <= Len(output)
                /\ output[k + 2] = ","

C30_Witness ==
    /\ op = "toMultiLine"
    /\ options.isCommaOnNewLine
    /\ ~HasLineBreak(input)
    /\ \E k \in 2..(Len(output) - 2) :
         /\ output[k - 1] = "("
         /\ output[k] = "\n"
         /\ output[k + 1] = "\n"
         /\ output[k + 2] = ","
    /\ \E k \in 2..(Len(output) - 1) :
         output[k - 1] = "a" /\ output[k] = "\n" /\ output[k + 1] = ","

=============================================================================
